---------------------------- MODULE Spec2Model ----------------------------
(***************************************************************************)
(* Lead Analyzer: the LeadAnalyzer class of lead_analyzer.py (load, clean, *)
(* aggregate, export) as a state machine over one analyzer object.         *)
(*                                                                         *)
(* Text is a sequence of one-character strings, so that strip(), title()   *)
(* and the e-mail pattern are computed character by character.  A cell of  *)
(* a DataFrame is a record [k, s, n]: k is the kind ("nan" a missing       *)
(* value, "str" a Python str s, "num" a number n, "date" a Timestamp whose *)
(* day number is n, "nat" a missing Timestamp).                            *)
(*                                                                         *)
(* pandas is modelled as documented for the 1.x/2.x line the code is       *)
(* written against: Series.fillna(inplace=True) on a column selected from  *)
(* the frame updates the frame.                                            *)
(***************************************************************************)
EXTENDS Integers, Sequences, FiniteSets

VARIABLES analyzer, last

vars == <<analyzer, last>>

-----------------------------------------------------------------------------
(* Bounds of the model *)

\* the CSV files of the model hold at most MaxRows data rows
MaxRows == 3

\* the CSV files loaded in an interactive session hold at most
\* MaxSessionRows data rows
MaxSessionRows == 2

-----------------------------------------------------------------------------
(* Characters and text *)

\* the characters of the model in code-point order (sorting of group keys)
CodePoints ==
    <<" ", "%", "+", "-", ".", "/",
      "0", "1", "2", "3", "4", "5", "6", "7", "8", "9", "@",
      "A", "B", "C", "D", "E", "F", "G", "H", "I", "J", "K", "L", "M",
      "N", "O", "P", "Q", "R", "S", "T", "U", "V", "W", "X", "Y", "Z", "_",
      "a", "b", "c", "d", "e", "f", "g", "h", "i", "j", "k", "l", "m",
      "n", "o", "p", "q", "r", "s", "t", "u", "v", "w", "x", "y", "z">>

\* ord(c): the place of a character in that order
OrdTable ==
    [c \in {CodePoints[i] : i \in 1..Len(CodePoints)} |->
        CHOOSE i \in 1..Len(CodePoints) : CodePoints[i] = c]

Ord(c) == OrdTable[c]

OrdUpperA == Ord("A")
OrdLowerA == Ord("a")
OrdZero == Ord("0")

IsUpper(c) == Ord(c) >= OrdUpperA /\ Ord(c) < OrdUpperA + 26
IsLower(c) == Ord(c) >= OrdLowerA /\ Ord(c) < OrdLowerA + 26
IsLetter(c) == IsUpper(c) \/ IsLower(c)
IsDigit(c) == Ord(c) >= OrdZero /\ Ord(c) < OrdZero + 10
IsSpace(c) == c = " "

ToUpper(c) == IF IsLower(c) THEN CodePoints[Ord(c) - OrdLowerA + OrdUpperA] ELSE c
ToLower(c) == IF IsUpper(c) THEN CodePoints[Ord(c) - OrdUpperA + OrdLowerA] ELSE c

\* str.strip(): leading and trailing whitespace removed
RECURSIVE LStrip(_)
LStrip(s) == IF s /= <<>> /\ IsSpace(Head(s)) THEN LStrip(Tail(s)) ELSE s

RECURSIVE RStrip(_)
RStrip(s) ==
    IF s /= <<>> /\ IsSpace(s[Len(s)]) THEN RStrip(SubSeq(s, 1, Len(s) - 1)) ELSE s

Strip(s) == RStrip(LStrip(s))

\* str.title(): a cased character is upper-cased when it starts a run of
\* cased characters and lower-cased when it follows a cased character
Title(s) ==
    [i \in 1..Len(s) |->
        IF i > 1 /\ IsLetter(s[i - 1]) THEN ToLower(s[i]) ELSE ToUpper(s[i])]

\* s < t in Python's str ordering (code points, the shorter prefix first)
RECURSIVE TextLess(_, _)
TextLess(s, t) ==
    IF t = <<>> THEN FALSE
    ELSE IF s = <<>> THEN TRUE
    ELSE IF Ord(Head(s)) /= Ord(Head(t)) THEN Ord(Head(s)) < Ord(Head(t))
    ELSE TextLess(Tail(s), Tail(t))

\* the decimal number a run of digits denotes
RECURSIVE DigitsValue(_)
DigitsValue(s) ==
    IF s = <<>> THEN 0
    ELSE 10 * DigitsValue(SubSeq(s, 1, Len(s) - 1)) + (Ord(s[Len(s)]) - OrdZero)

IsNumericText(s) == s /= <<>> /\ \A i \in 1..Len(s) : IsDigit(s[i])

-----------------------------------------------------------------------------
(* Cells *)

NaN == [k |-> "nan", s |-> <<>>, n |-> 0]
NaT == [k |-> "nat", s |-> <<>>, n |-> 0]
Str(t) == [k |-> "str", s |-> t, n |-> 0]
Num(x) == [k |-> "num", s |-> <<>>, n |-> x]
Date(d) == [k |-> "date", s |-> <<>>, n |-> d]

\* Series.isnull() of a cell
IsNull(c) == c.k \in {"nan", "nat"}

Columns ==
    {"lead_id", "name", "email", "phone", "source", "status", "lead_value",
     "date_added"}

\* table t with column col assigned the cells of a Series
SetColumn(t, col, cells) ==
    [i \in 1..Len(t) |-> [t[i] EXCEPT ![col] = cells[i]]]

\* Series.fillna(value): the missing cells replaced
FillNa(c, value) == IF IsNull(c) THEN value ELSE c

\* whether Series.str accepts the column: an object column, which is what
\* read_csv yields for a column with a non-numeric cell or for a table
\* without rows; a column of numbers and missing values is float64/int64
HasStrAccessor(t, col) ==
    Len(t) = 0 \/ \E i \in 1..Len(t) : t[i][col].k = "str"

\* Series.str.strip(), .str.title(): applied to the str cells, other cells
\* of an object column become missing
StrStrip(c) == IF c.k = "str" THEN Str(Strip(c.s)) ELSE NaN
StrTitle(c) == IF c.k = "str" THEN Str(Title(c.s)) ELSE NaN

-----------------------------------------------------------------------------
(* The e-mail pattern, lead_analyzer.py line 57 *)

IsLocalChar(c) == IsLetter(c) \/ IsDigit(c) \/ c \in {".", "_", "%", "+", "-"}
IsDomainChar(c) == IsLetter(c) \/ IsDigit(c) \/ c \in {".", "-"}

\* re.match of ^[a-zA-Z0-9._%+-]+@[a-zA-Z0-9.-]+\.[a-zA-Z]{2,}$ on text s:
\* at is the place of the "@", dot the place of the last "." before the
\* top-level domain
email_pattern(s) ==
    \E at \in 2..Len(s) :
        /\ s[at] = "@"
        /\ \A i \in 1..(at - 1) : IsLocalChar(s[i])
        /\ \E dot \in (at + 2)..(Len(s) - 2) :
              /\ s[dot] = "."
              /\ \A i \in (at + 1)..(dot - 1) : IsDomainChar(s[i])
              /\ \A i \in (dot + 1)..Len(s) : IsLetter(s[i])

\* Series.str.match(email_pattern, na=False) of a cell
StrMatchEmail(c) == c.k = "str" /\ email_pattern(c.s)

-----------------------------------------------------------------------------
(* Dates: pd.to_datetime on ISO calendar dates YYYY-MM-DD *)

IsLeap(y) == (y % 4 = 0 /\ y % 100 /= 0) \/ y % 400 = 0

DaysInMonth(y, m) ==
    IF m = 2 THEN (IF IsLeap(y) THEN 29 ELSE 28)
    ELSE IF m \in {4, 6, 9, 11} THEN 30 ELSE 31

\* days since 1970-01-01 of a civil date
DaysFromCivil(y, m, d) ==
    LET yy == IF m <= 2 THEN y - 1 ELSE y
        era == yy \div 400
        yoe == yy - era * 400
        mp == IF m > 2 THEN m - 3 ELSE m + 9
        doy == (153 * mp + 2) \div 5 + d - 1
        doe == yoe * 365 + yoe \div 4 - yoe \div 100 + doy
    IN era * 146097 + doe - 719468

IsIsoDateText(s) ==
    /\ Len(s) = 10
    /\ s[5] = "-" /\ s[8] = "-"
    /\ \A i \in {1, 2, 3, 4, 6, 7, 9, 10} : IsDigit(s[i])
    /\ LET y == DigitsValue(SubSeq(s, 1, 4))
           m == DigitsValue(SubSeq(s, 6, 7))
           d == DigitsValue(SubSeq(s, 9, 10))
       IN m \in 1..12 /\ d \in 1..DaysInMonth(y, m)

IsoDateValue(s) ==
    DaysFromCivil(DigitsValue(SubSeq(s, 1, 4)), DigitsValue(SubSeq(s, 6, 7)),
                  DigitsValue(SubSeq(s, 9, 10)))

\* whether pd.to_datetime parses the cell: a missing value becomes NaT, a
\* str must denote a date
DateParses(c) == c.k /= "str" \/ IsIsoDateText(c.s)

ToDatetimeCell(c) ==
    IF c.k = "str" THEN Date(IsoDateValue(c.s))
    ELSE IF c.k = "date" THEN c
    ELSE NaT

\* Series.dt.to_period('W'): the Monday-to-Sunday week of a day number
\* (1970-01-01 was a Thursday)
WeekOf(d) == (d + 3) \div 7

\* pd.to_numeric(errors='coerce') of a cell: text that is not a number
\* becomes missing
ToNumericCell(c) ==
    IF c.k = "num" THEN c
    ELSE IF c.k = "str" /\ IsNumericText(c.s) THEN Num(DigitsValue(c.s))
    ELSE NaN

-----------------------------------------------------------------------------
(* pd.read_csv: a CSV file is a sequence of rows of text fields *)

\* some of read_csv's default na_values
NaValues == {<<>>, <<"N", "A">>, <<"n", "/", "a">>}

\* a column is parsed as numbers when every field of it that is not a
\* missing value is a number (and the file has a row)
IsNumericColumn(file, col) ==
    /\ Len(file) > 0
    /\ \A i \in 1..Len(file) :
          file[i][col] \in NaValues \/ IsNumericText(file[i][col])

ReadCell(file, i, col) ==
    IF file[i][col] \in NaValues THEN NaN
    ELSE IF IsNumericColumn(file, col) THEN Num(DigitsValue(file[i][col]))
    ELSE Str(file[i][col])

read_csv(file) ==
    [i \in 1..Len(file) |-> [col \in Columns |-> ReadCell(file, i, col)]]

-----------------------------------------------------------------------------
(* The CSV files of the model *)

\* the text YYYY-MM-DD of a date of the years 1000..9999
RECURSIVE Digits(_, _)
Digits(x, width) ==
    IF width = 0 THEN <<>>
    ELSE Digits(x \div 10, width - 1) \o <<CodePoints[OrdZero + (x % 10)]>>

IsoText(y, m, d) == Digits(y, 4) \o <<"-">> \o Digits(m, 2) \o <<"-">> \o Digits(d, 2)

CsvRow(id, name, email, phone, source, status, value, date) ==
    [lead_id |-> id, name |-> name, email |-> email, phone |-> phone,
     source |-> source, status |-> status, lead_value |-> value,
     date_added |-> date]

PhoneText == <<"5", "5", "5", "-", "0", "1">>
GoodEmail == <<"a", "@", "b", ".", "c", "o">>
BadEmail == <<"b", "a", "d", "-", "e", "m", "a", "i", "l">>
ShortTldEmail == <<"a", "@", "b", ".", "c">>
LongEmail == <<"X", "_", "y", "%", "z", "+", "1", "@", "q", "-", "r", ".", "s", ".", "I", "O">>
NoLocalEmail == <<"@", "b", ".", "c", "o">>
GoogleSpaced == <<" ", "g", "o", "o", "g", "l", "e", " ">>
Google == <<"G", "o", "o", "g", "l", "e">>
Facebook == <<"f", "a", "c", "e", "b", "o", "o", "k">>
Ads == <<"a", "d", "s">>
GoogleUpper == <<"G", "O", "O", "G", "L", "E">>
ConvertedLower == <<"c", "o", "n", "v", "e", "r", "t", "e", "d">>
Converted == <<"C", "o", "n", "v", "e", "r", "t", "e", "d">>
New == <<"N", "e", "w">>
NewSpaced == <<" ", "n", "e", "w">>
ConvertedUpperSpaced == <<"C", "O", "N", "V", "E", "R", "T", "E", "D", " ">>

\* the two rows of the scenario: {status "converted", lead_value "150",
\* source " google "} and {status "New", lead_value "", source "Google"}
ScenarioRow1 ==
    CsvRow(<<"1">>, <<" ", "A", "n", "n", " ">>, GoodEmail, PhoneText,
           GoogleSpaced, ConvertedLower, <<"1", "5", "0">>, IsoText(2024, 1, 1))
ScenarioRow2 ==
    CsvRow(<<"2">>, <<"B", "o", "b">>, BadEmail, <<>>,
           Google, New, <<>>, IsoText(2024, 1, 1))

\* the rows a CSV file of the model is made of: the scenario's rows, and
\* rows with a missing e-mail, name, phone, source, status, lead_id or date,
\* a lead_value that is not a number, a date that is not a date, and
\* sources and statuses in capitals
CsvRows ==
    { ScenarioRow1,
      ScenarioRow2,
      CsvRow(<<"3">>, <<"C", "y">>, <<>>, PhoneText,
             Facebook, ConvertedLower, <<"2", "0">>, IsoText(2024, 1, 9)),
      CsvRow(<<"4">>, <<>>, ShortTldEmail, <<"N", "A">>,
             Facebook, NewSpaced, <<"a", "b", "c">>, <<>>),
      CsvRow(<<"5">>, <<"E", "d">>, GoodEmail, PhoneText,
             <<>>, ConvertedLower, <<"2", "0">>, IsoText(2024, 2, 29)),
      CsvRow(<<"6">>, <<"F", "l", "o">>, GoodEmail, PhoneText,
             Ads, <<>>, <<"1", "5", "0">>, IsoText(2023, 12, 31)),
      CsvRow(<<>>, <<"G", "u", "s">>, GoodEmail, PhoneText,
             Google, Converted, <<"2", "0">>, IsoText(2024, 1, 9)),
      CsvRow(<<"8">>, <<"H", "a", "l">>, GoodEmail, PhoneText,
             GoogleSpaced, New, <<"2", "0">>, <<"s", "o", "o", "n">>),
      CsvRow(<<"9">>, <<" ", "I", "v", "y">>, LongEmail, PhoneText,
             GoogleUpper, ConvertedUpperSpaced, <<"7">>, IsoText(2024, 1, 7)),
      CsvRow(<<"1", "0">>, <<"J", "o">>, NoLocalEmail, PhoneText,
             Ads, ConvertedLower, <<"1", "5", "0">>, IsoText(2024, 1, 8)) }

RECURSIVE SeqsUpTo(_, _)
SeqsUpTo(S, n) ==
    IF n = 0 THEN {<<>>}
    ELSE LET shorter == SeqsUpTo(S, n - 1)
         IN shorter \cup {Append(t, x) : t \in {u \in shorter : Len(u) = n - 1}, x \in S}

CsvFiles == SeqsUpTo(CsvRows, MaxRows)

\* what opening and parsing csv_file can do: the file's rows, or an error
ReadOutcomes ==
    {[err |-> "", file |-> f] : f \in CsvFiles}
        \cup {[err |-> e, file |-> <<>>] : e \in {"FileNotFoundError", "Exception"}}

Paths == {"leads.csv"}

-----------------------------------------------------------------------------
(* class LeadAnalyzer *)

None == [some |-> FALSE, rows |-> <<>>]
Frame(t) == [some |-> TRUE, rows |-> t]

\* no analyzer constructed yet
NoAnalyzer == [made |-> FALSE, csv_file |-> "", df |-> None, clean_df |-> None]

\* LeadAnalyzer(csv_file)
LeadAnalyzer(csv_file) ==
    [made |-> TRUE, csv_file |-> csv_file, df |-> None, clean_df |-> None]

\* the outcome of a method call: the object after it, how it ended ("ok",
\* the exception it raised, or the message of its guard) and what it
\* returned, a record in every case (None for no value)
Outcome(self, out, ret) == [self |-> self, out |-> out, ret |-> ret]

\* the bool load_data returns
Returned(b) == [bool |-> b]

\* the files a call wrote
Wrote(files) == [files |-> files]

\* the messages of the guards
NotLoaded == "Please load data first"
NotCleaned == "Please clean data first"

load_data(self, read) ==
    IF read.err = ""
    THEN Outcome([self EXCEPT !.df = Frame(read_csv(read.file))], "ok", Returned(TRUE))
    ELSE Outcome(self, read.err, Returned(FALSE))

NotProvided == Str(<<"N", "o", "t", " ", "p", "r", "o", "v", "i", "d", "e", "d">>)
InvalidEmail == Str(<<"I", "n", "v", "a", "l", "i", "d", " ", "e", "m", "a", "i", "l">>)

FillPhone(t) ==
    SetColumn(t, "phone", [i \in 1..Len(t) |-> FillNa(t[i].phone, NotProvided)])
FillEmail(t) ==
    SetColumn(t, "email", [i \in 1..Len(t) |-> FillNa(t[i].email, NotProvided)])
FillLeadValue(t) ==
    SetColumn(t, "lead_value", [i \in 1..Len(t) |-> FillNa(t[i].lead_value, Num(0))])
\* source and status are stripped of nothing, only title-cased
StandardizeSourceNoStrip(t) ==
    SetColumn(t, "source", [i \in 1..Len(t) |-> StrTitle(t[i].source)])

StandardizeSource(t) ==
    SetColumn(t, "source", [i \in 1..Len(t) |-> StrTitle(StrStrip(t[i].source))])
StandardizeStatus(t) ==
    SetColumn(t, "status", [i \in 1..Len(t) |-> StrTitle(StrStrip(t[i].status))])
StripName(t) ==
    SetColumn(t, "name", [i \in 1..Len(t) |-> StrStrip(t[i].name)])

\* the sentinel "Not provided" passes the validation
ValidateEmailsKeepSentinel(t) ==
    SetColumn(t, "email",
              [i \in 1..Len(t) |->
                  IF StrMatchEmail(t[i].email) \/ t[i].email = NotProvided
                  THEN t[i].email ELSE InvalidEmail])

ValidateEmails(t) ==
    SetColumn(t, "email",
              [i \in 1..Len(t) |->
                  IF StrMatchEmail(t[i].email) THEN t[i].email ELSE InvalidEmail])
ConvertDates(t) ==
    SetColumn(t, "date_added", [i \in 1..Len(t) |-> ToDatetimeCell(t[i].date_added)])
NumericLeadValue(t) ==
    SetColumn(t, "lead_value",
              [i \in 1..Len(t) |-> FillNa(ToNumericCell(t[i].lead_value), Num(0))])

\* the column steps of clean_data on the copy of the Raw table: the table
\* they leave and how they end.  An exception of a step leaves the table as
\* the steps before it wrote it.
CleanSteps(copy) ==
    LET filled == FillLeadValue(FillEmail(FillPhone(copy)))
        src == StandardizeSource(filled)
        sta == StandardizeStatus(src)
        nam == StripName(sta)
        eml == ValidateEmails(nam)
        dat == ConvertDates(eml)
        num == NumericLeadValue(dat)
    IN IF ~HasStrAccessor(filled, "source")
       THEN [rows |-> filled, out |-> "AttributeError"]
       ELSE IF ~HasStrAccessor(src, "status")
       THEN [rows |-> src, out |-> "AttributeError"]
       ELSE IF ~HasStrAccessor(sta, "name")
       THEN [rows |-> sta, out |-> "AttributeError"]
       ELSE IF ~HasStrAccessor(nam, "email")
       THEN [rows |-> nam, out |-> "AttributeError"]
       ELSE IF \E i \in 1..Len(eml) : ~DateParses(eml[i].date_added)
       THEN [rows |-> eml, out |-> "DateParseError"]
       ELSE [rows |-> num, out |-> "ok"]

\* clean_data without the copy: clean_df is the Raw table itself, rewritten
clean_data_in_place(self) ==
    IF ~self.df.some THEN Outcome(self, NotLoaded, None)
    ELSE LET r == CleanSteps(self.df.rows)
         IN Outcome([self EXCEPT !.df = Frame(r.rows), !.clean_df = Frame(r.rows)],
                    r.out, None)

\* the rows of t that hold no missing value (DataFrame.dropna)
RECURSIVE DropNa(_)
DropNa(t) ==
    IF t = <<>> THEN <<>>
    ELSE (IF \E col \in Columns : IsNull(Head(t)[col]) THEN <<>> ELSE <<Head(t)>>)
         \o DropNa(Tail(t))

\* clean_data dropping the incomplete rows of the copy before it rewrites it
clean_data_dropna(self) ==
    IF ~self.df.some THEN Outcome(self, NotLoaded, None)
    ELSE LET r == CleanSteps(DropNa(self.df.rows))
         IN Outcome([self EXCEPT !.clean_df = Frame(r.rows)], r.out, None)

\* clean_data: self.clean_df is assigned the copy of self.df first and is
\* rewritten column by column
clean_data(self) ==
    IF ~self.df.some THEN Outcome(self, NotLoaded, None)
    ELSE LET r == CleanSteps(self.df.rows)
         IN Outcome([self EXCEPT !.clean_df = Frame(r.rows)], r.out, None)

-----------------------------------------------------------------------------
(* Aggregation helpers *)

\* an exact fraction p/q in lowest terms; Python computes it in floating
\* point, whose rounding error the model leaves out
RECURSIVE Gcd(_, _)
Gcd(a, b) == IF b = 0 THEN a ELSE Gcd(b, a % b)

Fraction(p, q) ==
    LET g == Gcd(p, q) IN IF g = 0 THEN [num |-> 0, den |-> 1]
                          ELSE [num |-> p \div g, den |-> q \div g]

\* p/q rounded to an integer, halves to the even neighbour (numpy's round)
RoundHalfEven(p, q) ==
    LET fl == p \div q
        r == p % q
    IN IF 2 * r < q THEN fl
       ELSE IF 2 * r > q THEN fl + 1
       ELSE IF fl % 2 = 0 THEN fl ELSE fl + 1

\* (p / q * scale).round(2) of two integer columns, in hundredths: division
\* by zero gives inf, and nan for 0/0
Rounded2(p, q, scale) ==
    IF q = 0 THEN [k |-> IF p = 0 THEN "nan" ELSE "inf", n |-> 0]
    ELSE [k |-> "num", n |-> RoundHalfEven(p * scale * 100, q)]

\* the rows of table t whose column col holds v
RowsWhere(t, col, v) == {i \in 1..Len(t) : t[i][col] = v}

RECURSIVE SumLeadValue(_, _)
SumLeadValue(t, idx) ==
    IF idx = {} THEN 0
    ELSE LET i == CHOOSE j \in idx : TRUE
         IN t[i].lead_value.n + SumLeadValue(t, idx \ {i})

\* 'lead_id': 'count' counts the rows of the group whose lead_id is not missing
CountLeadId(t, idx) == Cardinality({i \in idx : ~IsNull(t[i].lead_id)})

\* lambda x: (x == 'Converted').sum()
CountConverted(t, idx) == Cardinality({i \in idx : t[i].status = Str(Converted)})

\* the keys of a group-by: the values of the column that are not missing,
\* in ascending order
GroupKeys(t, col) == {t[i][col] : i \in {j \in 1..Len(t) : ~IsNull(t[j][col])}}

KeyLess(a, b) == IF a.k = "str" /\ b.k = "str" THEN TextLess(a.s, b.s) ELSE a.n < b.n

RECURSIVE SortedKeys(_)
SortedKeys(keys) ==
    IF keys = {} THEN <<>>
    ELSE LET least == CHOOSE a \in keys : \A b \in keys \ {a} : KeyLess(a, b)
         IN <<least>> \o SortedKeys(keys \ {least})

\* whether the sum of lead_value over the grouped rows is a number: a str
\* cell (a column clean_data has not reached) makes the sum or the division
\* that follows it raise TypeError
SummableLeadValue(t, col) ==
    \A i \in 1..Len(t) : IsNull(t[i][col]) \/ t[i].lead_value.k = "num"

\* whether Series.dt accepts date_added: a datetime64 column
IsDatetimeColumn(t) == \A i \in 1..Len(t) : t[i].date_added.k \in {"date", "nat"}

\* the orders in which a sort of rows by column by, descending, can leave them:
\* sort_values uses quicksort, which may leave equal keys in any order
Orderings(n) ==
    {f \in [1..n -> 1..n] : \A i, j \in 1..n : f[i] = f[j] => i = j}

\* the sort ascending
AscendingOrders(rows, by) ==
    {[i \in 1..Len(rows) |-> rows[f[i]]] : f \in
        {g \in Orderings(Len(rows)) :
            \A i \in 1..(Len(rows) - 1) : rows[g[i]][by] <= rows[g[i + 1]][by]}}

DescendingOrders(rows, by) ==
    {[i \in 1..Len(rows) |-> rows[f[i]]] : f \in
        {g \in Orderings(Len(rows)) :
            \A i \in 1..(Len(rows) - 1) : rows[g[i]][by] >= rows[g[i + 1]][by]}}

\* Series.idxmax(): the first place of the greatest value, missing values
\* skipped; 0 when there is none
RateGreater(a, b) ==
    \/ a.k = "inf" /\ b.k = "num"
    \/ a.k = "num" /\ b.k = "num" /\ a.n > b.n

IdxMax(rates) ==
    LET present == {i \in 1..Len(rates) : rates[i].k /= "nan"}
        best == {i \in present : \A j \in present : ~RateGreater(rates[j], rates[i])}
    IN IF best = {} THEN 0 ELSE CHOOSE i \in best : \A j \in best : i <= j

-----------------------------------------------------------------------------
(* The aggregations *)

\* calculate_conversion_rate without its guard
calculate_conversion_rate_unguarded(self) ==
    LET t == self.clean_df.rows
        converted == CountConverted(t, 1..Len(t))
    IN Outcome(self, "ok",
               IF Len(t) > 0 THEN Fraction(converted * 100, Len(t)) ELSE Fraction(0, 1))

\* calculate_conversion_rate returning the share, not the percentage
calculate_conversion_rate_share(self) ==
    IF ~self.clean_df.some THEN Outcome(self, NotCleaned, None)
    ELSE LET t == self.clean_df.rows
         IN Outcome(self, "ok",
                    IF Len(t) > 0 THEN Fraction(CountConverted(t, 1..Len(t)), Len(t))
                    ELSE Fraction(0, 1))

calculate_conversion_rate(self) ==
    IF ~self.clean_df.some THEN Outcome(self, NotCleaned, None)
    ELSE
      LET t == self.clean_df.rows
          total == Len(t)
          converted == CountConverted(t, 1..Len(t))
          rate == IF total > 0 THEN Fraction(converted * 100, total) ELSE Fraction(0, 1)
      IN Outcome(self, "ok", rate)

\* the frame groupby('source').agg(...) gives, with the two derived columns,
\* one row per source in ascending order of the source
SourceStats(t) ==
    LET keys == SortedKeys(GroupKeys(t, "source"))
    IN [g \in 1..Len(keys) |->
          LET idx == RowsWhere(t, "source", keys[g])
              total_leads == CountLeadId(t, idx)
              total_value == SumLeadValue(t, idx)
              conversions == CountConverted(t, idx)
          IN [source |-> keys[g].s,
              total_leads |-> total_leads,
              total_value |-> total_value,
              conversions |-> conversions,
              conversion_rate |-> Rounded2(conversions, total_leads, 100),
              avg_lead_value |-> Rounded2(total_value, total_leads, 1)]]

\* the last place of the greatest rate, not the first
BestSourceLast(source_stats) ==
    LET rates == [i \in 1..Len(source_stats) |-> source_stats[i].conversion_rate]
        present == {i \in 1..Len(rates) : rates[i].k /= "nan"}
        best == {i \in present : \A j \in present : ~RateGreater(rates[j], rates[i])}
    IN IF best = {} THEN 0 ELSE CHOOSE i \in best : \A j \in best : i >= j

\* the place idxmax() finds in source_stats, the frame as sorted: an empty
\* frame makes it raise ValueError, and rates that are all nan make the
\* lookup of the source it names raise KeyError
BestSource(source_stats) ==
    IdxMax([i \in 1..Len(source_stats) |-> source_stats[i].conversion_rate])

\* analyze_by_source returns source_stats; the best performing source is
\* printed, and is recorded here beside the frame returned.  sorted is the
\* order sort_values leaves the frame in.
analyze_by_source(self, sorted) ==
    IF ~self.clean_df.some THEN Outcome(self, NotCleaned, None)
    ELSE IF ~SummableLeadValue(self.clean_df.rows, "source")
         THEN Outcome(self, "TypeError", None)
    ELSE IF sorted = <<>> THEN Outcome(self, "ValueError", None)
    ELSE IF BestSource(sorted) = 0 THEN Outcome(self, "KeyError", None)
    ELSE Outcome(self, "ok",
                 [source_stats |-> sorted,
                  best_source |-> sorted[BestSource(sorted)].source,
                  best_rate |-> sorted[BestSource(sorted)].conversion_rate])

SortedSourceStats(self) ==
    IF self.clean_df.some /\ SummableLeadValue(self.clean_df.rows, "source")
    THEN DescendingOrders(SourceStats(self.clean_df.rows), "total_value")
    ELSE {<<>>}

\* value_counts(): one row per status that is not missing, with its count
\* and its percentage of all rows
StatusCounts(t) ==
    LET keys == SortedKeys(GroupKeys(t, "status"))
    IN [g \in 1..Len(keys) |->
          LET count == Cardinality(RowsWhere(t, "status", keys[g]))
          IN [status |-> keys[g].s,
              Count |-> count,
              Percentage |-> Rounded2(count, Len(t), 100)]]

analyze_by_status(self, sorted) ==
    IF ~self.clean_df.some THEN Outcome(self, NotCleaned, None)
    ELSE Outcome(self, "ok", [status_df |-> sorted])

SortedStatusCounts(self) ==
    IF self.clean_df.some
    THEN DescendingOrders(StatusCounts(self.clean_df.rows), "Count")
    ELSE {<<>>}

\* the key of a day in a group-by of date_added: the day itself (dt.date,
\* freq "D") or its week (dt.to_period('W'), freq "W")
PeriodOf(d, freq) == IF freq = "W" THEN WeekOf(d) ELSE d

\* the frame a group-by of date_added by day or by week gives: one row per
\* key in ascending order
TrendStats(t, freq) ==
    LET dated == {i \in 1..Len(t) : t[i].date_added.k = "date"}
        keys == SortedKeys({Num(PeriodOf(t[i].date_added.n, freq)) : i \in dated})
    IN [g \in 1..Len(keys) |->
          LET idx == {i \in dated : PeriodOf(t[i].date_added.n, freq) = keys[g].n}
              leads_added == CountLeadId(t, idx)
              conversions == CountConverted(t, idx)
          IN [period |-> keys[g].n,
              leads_added |-> leads_added,
              total_value |-> SumLeadValue(t, idx),
              conversions |-> conversions,
              conversion_rate |-> Rounded2(conversions, leads_added, 100)]]

\* analyze_trends returns (daily, weekly); weekly has no conversion_rate column
analyze_trends(self) ==
    IF ~self.clean_df.some THEN Outcome(self, NotCleaned, None)
    ELSE IF ~IsDatetimeColumn(self.clean_df.rows)
         THEN Outcome(self, "AttributeError", None)
    ELSE
      LET t == self.clean_df.rows
          weekly == TrendStats(t, "W")
      IN Outcome(self, "ok",
                 [daily |-> TrendStats(t, "D"),
                  weekly |-> [g \in 1..Len(weekly) |->
                                [period |-> weekly[g].period,
                                 leads_added |-> weekly[g].leads_added,
                                 total_value |-> weekly[g].total_value,
                                 conversions |-> weekly[g].conversions]]])

\* create_visualizations: the charts are drawn from clean_df (the fourth
\* from date_added.dt.date) and saved; ret names the file written
create_visualizations(self) ==
    IF ~self.clean_df.some THEN Outcome(self, NotCleaned, None)
    ELSE IF ~IsDatetimeColumn(self.clean_df.rows)
         THEN Outcome(self, "AttributeError", None)
    ELSE Outcome(self, "ok", Wrote({"lead_analysis_charts.png"}))

\* export_report: the cleaned table is written first, then the summary,
\* whose date range needs date_added to hold Timestamps and whose totals
\* need lead_value to hold numbers; ret names the files written in full
export_report(self, format) ==
    IF ~self.clean_df.some THEN Outcome(self, NotCleaned, None)
    ELSE
      LET clean_file ==
            IF format = "csv" THEN {"cleaned_leads.csv"}
            ELSE IF format = "excel" THEN {"cleaned_leads.xlsx"}
            ELSE {}
      IN IF ~IsDatetimeColumn(self.clean_df.rows)
         THEN Outcome(self, "AttributeError", Wrote(clean_file))
         ELSE Outcome(self, "ok", Wrote(clean_file \cup {"lead_summary.txt"}))

-----------------------------------------------------------------------------
(* The state machine: one analyzer object and the outcome of the last call *)

Call(op, outcome) ==
    /\ analyzer' = outcome.self
    /\ last' = [op |-> op, out |-> outcome.out, ret |-> outcome.ret]

Init ==
    /\ analyzer = NoAnalyzer
    /\ last = [op |-> "", out |-> "", ret |-> None]

\* analyzer = LeadAnalyzer(file_path)
NewAnalyzer ==
    /\ Paths /= {}
    /\ \E path \in Paths : Call("__init__", Outcome(LeadAnalyzer(path), "ok", None))

\* analyzer.load_data(), called on an analyzer that holds no Raw table yet:
\* main.py loads each analyzer once, right after constructing it
LoadData ==
    /\ analyzer.made /\ ~analyzer.df.some
    /\ \E read \in ReadOutcomes : Call("load_data", load_data(analyzer, read))

CleanData ==
    /\ analyzer.made
    /\ Call("clean_data", clean_data(analyzer))

CalculateConversionRate ==
    /\ analyzer.made
    /\ Call("calculate_conversion_rate", calculate_conversion_rate(analyzer))

AnalyzeBySource ==
    /\ analyzer.made
    /\ \E sorted \in SortedSourceStats(analyzer) :
          Call("analyze_by_source", analyze_by_source(analyzer, sorted))

AnalyzeByStatus ==
    /\ analyzer.made
    /\ \E sorted \in SortedStatusCounts(analyzer) :
          Call("analyze_by_status", analyze_by_status(analyzer, sorted))

AnalyzeTrends ==
    /\ analyzer.made
    /\ Call("analyze_trends", analyze_trends(analyzer))

CreateVisualizations ==
    /\ analyzer.made
    /\ Call("create_visualizations", create_visualizations(analyzer))

ExportReport ==
    /\ analyzer.made
    /\ \E format \in {"csv", "excel"} :
          Call("export_report", export_report(analyzer, format))

Next ==
    \/ NewAnalyzer
    \/ LoadData
    \/ CleanData
    \/ CalculateConversionRate
    \/ AnalyzeBySource
    \/ AnalyzeByStatus
    \/ AnalyzeTrends
    \/ CreateVisualizations
    \/ ExportReport

Spec == Init /\ [][Next]_vars

-----------------------------------------------------------------------------
(* The interactive session of main.py: the menu loop over the variable     *)
(* analyzer, one action per menu choice.  last.op is the choice entered.   *)

\* the files the user of a session points the program at are made of five
\* of the rows: the scenario's two, one of another source, the one without
\* a source and the one whose date is not a date
SessionRows ==
    {r \in CsvRows : r.lead_id \in {<<"1">>, <<"2">>, <<"3">>, <<"5">>, <<"8">>}}

SessionFiles == SeqsUpTo(SessionRows, MaxSessionRows)

SessionReadOutcomes == {read \in ReadOutcomes : read.file \in SessionFiles}

\* the messages of the menu's guards
MenuNotLoaded == "Please load a CSV file first (option 1)"
MenuNotCleaned == "Please clean data first (option 2)"
NoDataLoaded == "No data loaded yet"

\* the exceptions no method catches: they leave main() and end the program
UncaughtExceptions ==
    {"AttributeError", "DateParseError", "TypeError", "ValueError", "KeyError"}

\* the loop is still asking for a choice: choice 0 has not been entered and
\* no exception has ended the program
SessionRunning == last.op /= "0" /\ last.out \notin UncaughtExceptions

\* analyzer is None or analyzer.df is None
NoRaw == ~analyzer.made \/ ~analyzer.df.some

\* analyzer is None or analyzer.clean_df is None
NoCleaned == ~analyzer.made \/ ~analyzer.clean_df.some

\* choice 1 that calls load_data on the analyzer the session already has,
\* when it has one
Choice1SameAnalyzer ==
    /\ SessionRunning
    /\ \E path \in Paths, read \in SessionReadOutcomes :
          LET loaded == load_data(IF analyzer.made THEN analyzer
                                  ELSE LeadAnalyzer(path), read)
          IN IF loaded.ret.bool THEN Call("1", loaded)
             ELSE Call("1", Outcome(NoAnalyzer, loaded.out, loaded.ret))

\* choice 1: a new analyzer takes the place of the session's, and is given
\* up when its load fails
Choice1 ==
    /\ SessionRunning
    /\ \E path \in Paths, read \in SessionReadOutcomes :
          LET loaded == load_data(LeadAnalyzer(path), read)
          IN IF loaded.ret.bool THEN Call("1", loaded)
             ELSE Call("1", Outcome(NoAnalyzer, loaded.out, loaded.ret))

Choice2 ==
    /\ SessionRunning
    /\ IF NoRaw THEN Call("2", Outcome(analyzer, MenuNotLoaded, None))
       ELSE Call("2", clean_data(analyzer))

Choice3 ==
    /\ SessionRunning
    /\ IF NoCleaned THEN Call("3", Outcome(analyzer, MenuNotCleaned, None))
       ELSE Call("3", calculate_conversion_rate(analyzer))

Choice4 ==
    /\ SessionRunning
    /\ IF NoCleaned THEN Call("4", Outcome(analyzer, MenuNotCleaned, None))
       ELSE \E sorted \in SortedSourceStats(analyzer) :
               Call("4", analyze_by_source(analyzer, sorted))

Choice5 ==
    /\ SessionRunning
    /\ IF NoCleaned THEN Call("5", Outcome(analyzer, MenuNotCleaned, None))
       ELSE \E sorted \in SortedStatusCounts(analyzer) :
               Call("5", analyze_by_status(analyzer, sorted))

Choice6 ==
    /\ SessionRunning
    /\ IF NoCleaned THEN Call("6", Outcome(analyzer, MenuNotCleaned, None))
       ELSE Call("6", analyze_trends(analyzer))

Choice7 ==
    /\ SessionRunning
    /\ IF NoCleaned THEN Call("7", Outcome(analyzer, MenuNotCleaned, None))
       ELSE Call("7", create_visualizations(analyzer))

Choice8 ==
    /\ SessionRunning
    /\ IF NoCleaned THEN Call("8", Outcome(analyzer, MenuNotCleaned, None))
       ELSE Call("8", export_report(analyzer, "csv"))

Choice9 ==
    /\ SessionRunning
    /\ IF NoCleaned THEN Call("9", Outcome(analyzer, MenuNotCleaned, None))
       ELSE Call("9", export_report(analyzer, "excel"))

\* choice 10, show_data_info: the table it previews is the Cleaned table
\* when there is one and the Raw table otherwise
Choice10 ==
    /\ SessionRunning
    /\ IF NoRaw THEN Call("10", Outcome(analyzer, NoDataLoaded, None))
       ELSE Call("10", Outcome(analyzer, "ok",
                               IF analyzer.clean_df.some THEN analyzer.clean_df
                               ELSE analyzer.df))

\* choice 0 leaves the loop
Choice0 ==
    /\ SessionRunning
    /\ Call("0", Outcome(analyzer, "exit", None))

\* any other input
InvalidChoices == {"", "11", "x"}

InvalidChoice ==
    /\ SessionRunning
    /\ \E choice \in InvalidChoices :
          Call(choice, Outcome(analyzer, "Invalid choice", None))

NextMain ==
    \/ Choice1
    \/ Choice2
    \/ Choice3
    \/ Choice4
    \/ Choice5
    \/ Choice6
    \/ Choice7
    \/ Choice8
    \/ Choice9
    \/ Choice10
    \/ Choice0
    \/ InvalidChoice

SpecMain == Init /\ [][NextMain]_vars

-----------------------------------------------------------------------------
(* Properties *)

Aggregations ==
    {"calculate_conversion_rate", "analyze_by_source", "analyze_by_status",
     "analyze_trends"}

NeedsCleaned == Aggregations \cup {"create_visualizations", "export_report"}

\* the rows of the Cleaned table, and of the Raw table
CleanRows == analyzer.clean_df.rows
RawRows == analyzer.df.rows

\* the last call was a clean_data that returned normally, so that the
\* Cleaned table is the one it produced
JustCleaned == last.op = "clean_data" /\ last.out = "ok"

\* C1: a call out of order is rejected and changes nothing, and the session
\* goes on.  clean_data without a Raw table answers "Please load data first"
\* and leaves no Cleaned table; an aggregation, the charts or the export
\* without a Cleaned table answers "Please clean data first", returns
\* nothing and leaves both tables as they were; a clean_data that follows
\* such a rejection on a loaded analyzer is carried out, and the call
\* retried after a clean_data that produced a table is not rejected again.
C1_StageOrdering ==
    [][/\ (last'.op = "clean_data" /\ ~analyzer.df.some) =>
             /\ last'.out = NotLoaded
             /\ analyzer' = analyzer
             /\ ~analyzer'.clean_df.some
       /\ (last'.op \in NeedsCleaned /\ ~analyzer.clean_df.some) =>
             /\ last'.out = NotCleaned
             /\ last'.ret = None
             /\ analyzer' = analyzer
       /\ (last.out = NotCleaned /\ last'.op = "clean_data" /\ analyzer.df.some) =>
             /\ last'.out /= NotLoaded
             /\ analyzer'.clean_df.some
       /\ (last.op = "clean_data" /\ last.out = "ok" /\ last'.op \in NeedsCleaned) =>
             last'.out /= NotCleaned]_vars

\* C1 witness: an aggregation was rejected on a loaded, uncleaned analyzer
C1_Witness ==
    /\ last.op = "analyze_by_source" /\ last.out = NotCleaned
    /\ analyzer.df.some /\ Len(RawRows) > 0 /\ ~analyzer.clean_df.some

\* C2: a clean_data call that fails at date parsing leaves the Cleaned table
\* exactly as it was before the call.
C2_FailedCleanKeepsCleaned ==
    [][(last'.op = "clean_data" /\ last'.out = "DateParseError") =>
          analyzer'.clean_df = analyzer.clean_df]_vars

\* C3: on a Cleaned table without rows every aggregation returns normally:
\* the conversion rate is 0 and the grouped results are empty.
C3_EmptyTableAggregations ==
    (last.op \in Aggregations /\ analyzer.clean_df = Frame(<<>>)) =>
        /\ last.out = "ok"
        /\ last.op = "calculate_conversion_rate" => last.ret = Fraction(0, 1)
        /\ last.op = "analyze_by_source" => last.ret.source_stats = <<>>
        /\ last.op = "analyze_by_status" => last.ret.status_df = <<>>
        /\ last.op = "analyze_trends" => last.ret = [daily |-> <<>>, weekly |-> <<>>]

RECURSIVE SumOf(_, _)
SumOf(rows, field) ==
    IF rows = <<>> THEN 0 ELSE Head(rows)[field] + SumOf(Tail(rows), field)

\* whether the Cleaned table is one a clean_data call completed: every
\* column is in its cleaned form
IsCleaned(t) ==
    \A i \in 1..Len(t) :
        /\ t[i].date_added.k \in {"date", "nat"}
        /\ t[i].lead_value.k = "num"

\* C4: on a non-empty Cleaned table the total_leads of analyze_by_source and
\* the Count of analyze_by_status each sum to the number of rows.
C4_CountsSumToRows ==
    (last.out = "ok" /\ Len(CleanRows) > 0 /\ IsCleaned(CleanRows)) =>
        /\ last.op = "analyze_by_source" =>
              SumOf(last.ret.source_stats, "total_leads") = Len(CleanRows)
        /\ last.op = "analyze_by_status" =>
              SumOf(last.ret.status_df, "Count") = Len(CleanRows)

\* C5: clean_data, the aggregations, the charts and the export never change
\* the Raw table, and the Cleaned table a clean_data call leaves is derived
\* from the Raw table alone: it is the table the call leaves on the same
\* analyzer without a prior Cleaned table, so a second clean_data in a row
\* changes nothing.
C5_RawNeverMutated ==
    [][/\ last'.op \in NeedsCleaned \cup {"clean_data"} =>
             analyzer'.df = analyzer.df
       /\ last'.op = "clean_data" =>
             analyzer'.clean_df =
                 clean_data([analyzer EXCEPT !.clean_df = None]).self.clean_df
       /\ (last.op = "clean_data" /\ last'.op = "clean_data") =>
             analyzer' = analyzer]_vars

\* C5 witness: a clean_data call completed and rewrote some cell, the Raw
\* table being as loaded
C5_Witness ==
    /\ JustCleaned /\ Len(RawRows) > 0
    /\ CleanRows /= RawRows
    /\ \E f \in CsvFiles : RawRows = read_csv(f)

\* C6: in the Cleaned table a clean_data call produced, phone and email are
\* present in every row; the email is the Raw email where that matches the
\* pattern and "Invalid email" otherwise, never "Not provided"; the phone is
\* the Raw phone, or "Not provided" where the Raw phone is missing.
C6_PhoneEmailSentinels ==
    JustCleaned =>
        /\ Len(CleanRows) = Len(RawRows)
        /\ \A i \in 1..Len(CleanRows) :
              LET raw == RawRows[i]
                  row == CleanRows[i]
              IN /\ ~IsNull(row.phone) /\ ~IsNull(row.email)
                 /\ row.email /= NotProvided
                 /\ IF raw.email.k = "str" /\ email_pattern(raw.email.s)
                    THEN row.email = raw.email
                    ELSE row.email = InvalidEmail
                 /\ IF IsNull(raw.phone)
                    THEN row.phone = NotProvided
                    ELSE row.phone = raw.phone

\* C6 witness: a cleaned table with a missing Raw email, a missing Raw phone
\* and a Raw email that is kept
C6_Witness ==
    /\ JustCleaned
    /\ \E i \in 1..Len(RawRows) : IsNull(RawRows[i].email)
    /\ \E i \in 1..Len(RawRows) : IsNull(RawRows[i].phone)
    /\ \E i \in 1..Len(RawRows) :
          RawRows[i].email = Str(GoodEmail) /\ CleanRows[i].email = Str(GoodEmail)
    /\ \E i \in 1..Len(RawRows) : RawRows[i].email = Str(BadEmail)

\* the rows of table t whose status is exactly "Converted"
ConvertedRows(t) ==
    {i \in 1..Len(t) : t[i].status.k = "str" /\ t[i].status.s = Converted}

\* C7: calculate_conversion_rate returns the number of rows whose status is
\* exactly "Converted" over the number of rows, times 100, and 0 for a table
\* without rows; it changes neither table, so that a second call returns
\* the same.
C7_ConversionRate ==
    [][(last'.op = "calculate_conversion_rate" /\ analyzer.clean_df.some) =>
          /\ last'.out = "ok"
          /\ analyzer' = analyzer
          /\ LET n == Len(CleanRows)
                 c == Cardinality(ConvertedRows(CleanRows))
             IN IF n = 0 THEN last'.ret.num = 0
                ELSE last'.ret.num * n = 100 * c * last'.ret.den]_vars

\* C7 witness: a rate strictly between 0 and 100 was returned
C7_Witness ==
    /\ last.op = "calculate_conversion_rate" /\ last.out = "ok"
    /\ Len(CleanRows) > 1
    /\ last.ret.num > 0 /\ last.ret.num < 100 * last.ret.den

\* the places of source_stats whose conversion_rate no other place exceeds,
\* places without a rate (nan) left out
MaxRatePlaces(source_stats) ==
    {i \in 1..Len(source_stats) :
        /\ source_stats[i].conversion_rate.k /= "nan"
        /\ \A j \in 1..Len(source_stats) :
              ~RateGreater(source_stats[j].conversion_rate,
                           source_stats[i].conversion_rate)}

\* C8 (as claimed): the best performing source is the first of the sources
\* with the greatest conversion_rate in the order of the group keys, the
\* order before the sort by total_value.  Stated for the frames whose
\* total_values all differ, which the sort can leave in one order only.
C8_BestIsFirstInGroupOrder ==
    (/\ last.op = "analyze_by_source" /\ last.out = "ok"
     /\ \A i, j \in 1..Len(last.ret.source_stats) :
           i /= j => last.ret.source_stats[i].total_value /=
                         last.ret.source_stats[j].total_value) =>
        LET grouped == SourceStats(CleanRows)
            best == MaxRatePlaces(grouped)
        IN /\ best /= {}
           /\ last.ret.best_source =
                 grouped[CHOOSE i \in best : \A j \in best : i <= j].source

\* C8 (amended): the best performing source is the first of the sources with
\* the greatest conversion_rate in the order of the frame returned, the
\* order after the sort by total_value descending; no source with the same
\* rate has a greater total_value.
C8_BestIsFirstInSortedOrder ==
    (last.op = "analyze_by_source" /\ last.out = "ok") =>
        LET stats == last.ret.source_stats
            best == MaxRatePlaces(stats)
        IN /\ best /= {}
           /\ \E b \in best :
                 /\ \A j \in best : b <= j
                 /\ last.ret.best_source = stats[b].source
                 /\ last.ret.best_rate = stats[b].conversion_rate
                 /\ \A j \in best : stats[j].total_value <= stats[b].total_value

\* C8 witness: two sources tie for the greatest rate and the one named is
\* not the first of them in the order of the group keys
C8_Witness ==
    /\ last.op = "analyze_by_source" /\ last.out = "ok"
    /\ Cardinality(MaxRatePlaces(last.ret.source_stats)) > 1
    /\ \E i \in MaxRatePlaces(last.ret.source_stats) :
          TextLess(last.ret.source_stats[i].source, last.ret.best_source)

RECURSIVE TotalValueOf(_, _)
TotalValueOf(t, source) ==
    IF t = <<>> THEN 0
    ELSE (IF Head(t).source = Str(source) THEN Head(t).lead_value.n ELSE 0)
             + TotalValueOf(Tail(t), source)

PresentValues(t, col) == {t[i][col].s : i \in {j \in 1..Len(t) : t[j][col].k = "str"}}

\* C9: the rows analyze_by_source returns are one per source present in the
\* Cleaned table, each with the sum of that source's lead_value as
\* total_value, in non-increasing order of total_value; the rows
\* analyze_by_status returns are one per status present, in non-increasing
\* order of Count.
C9_SortedDescending ==
    /\ (last.op = "analyze_by_source" /\ last.out = "ok") =>
          LET stats == last.ret.source_stats
          IN /\ \A i \in 1..(Len(stats) - 1) :
                    stats[i].total_value >= stats[i + 1].total_value
             /\ {stats[i].source : i \in 1..Len(stats)} = PresentValues(CleanRows, "source")
             /\ Len(stats) = Cardinality(PresentValues(CleanRows, "source"))
             /\ \A i \in 1..Len(stats) :
                    stats[i].total_value = TotalValueOf(CleanRows, stats[i].source)
    /\ (last.op = "analyze_by_status" /\ last.out = "ok") =>
          LET counts == last.ret.status_df
          IN /\ \A i \in 1..(Len(counts) - 1) : counts[i].Count >= counts[i + 1].Count
             /\ {counts[i].status : i \in 1..Len(counts)} = PresentValues(CleanRows, "status")
             /\ Len(counts) = Cardinality(PresentValues(CleanRows, "status"))

\* C9 witness: two sources of different total_value came back in the order
\* opposite to that of their names
C9_Witness ==
    /\ last.op = "analyze_by_source" /\ last.out = "ok"
    /\ Len(last.ret.source_stats) > 1
    /\ last.ret.source_stats[1].total_value > last.ret.source_stats[2].total_value
    /\ TextLess(last.ret.source_stats[2].source, last.ret.source_stats[1].source)

LowerText(s) == [i \in 1..Len(s) |-> ToLower(s[i])]

\* text c is text r without the whitespace around it, up to letter case
IsTrimmed(c, r) ==
    /\ c = <<>> \/ (~IsSpace(c[1]) /\ ~IsSpace(c[Len(c)]))
    /\ \E a \in 0..Len(r) : \E b \in a..Len(r) :
          /\ \A i \in 1..a : IsSpace(r[i])
          /\ \A i \in (b + 1)..Len(r) : IsSpace(r[i])
          /\ LowerText(SubSeq(r, a + 1, b)) = LowerText(c)

\* every letter that starts a run of letters is a capital, every other one small
IsTitleCased(c) ==
    \A i \in 1..Len(c) :
        IsLetter(c[i]) => (IsUpper(c[i]) <=> (i = 1 \/ ~IsLetter(c[i - 1])))

\* the Raw table of the scenario
ScenarioFrame == Frame(read_csv(<<ScenarioRow1, ScenarioRow2>>))

\* C10: in the table clean_data produced, source and status are the Raw text
\* trimmed and title-cased, so that Raw sources equal up to case and
\* surrounding whitespace are one source, and lead_value is the Raw number,
\* or 0 where the Raw value is missing or not a number.  For the scenario's
\* two rows both sources are "Google", the lead_values are 150 and 0, the
\* statuses "Converted" and "New", calculate_conversion_rate returns 50 and
\* analyze_by_source one group "Google" of 2 leads with conversion_rate 50.
C10_Normalization ==
    /\ JustCleaned =>
          \A i \in 1..Len(CleanRows) :
              LET raw == RawRows[i]
                  row == CleanRows[i]
              IN /\ \A col \in {"source", "status"} :
                        IF raw[col].k = "str"
                        THEN /\ row[col].k = "str"
                             /\ IsTrimmed(row[col].s, raw[col].s)
                             /\ IsTitleCased(row[col].s)
                        ELSE IsNull(row[col])
                 /\ \A j \in 1..Len(CleanRows) :
                        (/\ raw.source.k = "str" /\ RawRows[j].source.k = "str"
                         /\ LowerText(Strip(raw.source.s)) =
                                LowerText(Strip(RawRows[j].source.s)))
                            => row.source = CleanRows[j].source
                 /\ row.lead_value.k = "num"
                 /\ row.lead_value.n =
                        (IF raw.lead_value.k = "num" THEN raw.lead_value.n
                         ELSE IF raw.lead_value.k = "str" /\ IsNumericText(raw.lead_value.s)
                              THEN DigitsValue(raw.lead_value.s)
                         ELSE 0)
    /\ (analyzer.df = ScenarioFrame /\ last.op = "clean_data") =>
          /\ last.out = "ok"
          /\ CleanRows[1].source = Str(Google) /\ CleanRows[2].source = Str(Google)
          /\ CleanRows[1].lead_value = Num(150) /\ CleanRows[2].lead_value = Num(0)
          /\ CleanRows[1].status = Str(Converted) /\ CleanRows[2].status = Str(New)
    /\ (analyzer.df = ScenarioFrame /\ analyzer.clean_df.some) =>
          /\ last.op = "calculate_conversion_rate" =>
                (last.out = "ok" /\ last.ret = [num |-> 50, den |-> 1])
          /\ last.op = "analyze_by_source" =>
                /\ last.out = "ok"
                /\ Len(last.ret.source_stats) = 1
                /\ last.ret.source_stats[1].source = Google
                /\ last.ret.source_stats[1].total_leads = 2
                /\ last.ret.source_stats[1].conversion_rate = [k |-> "num", n |-> 5000]

\* C10 witness: analyze_by_source returned on the cleaned scenario
C10_Witness ==
    /\ analyzer.df = ScenarioFrame /\ analyzer.clean_df.some
    /\ last.op = "analyze_by_source" /\ last.out = "ok"

\* C11: cleaning neither removes nor adds rows.  After a clean_data that
\* returned normally the Cleaned table has as many rows as the Raw table it
\* was copied from, and its row i is row i of the Raw table rewritten: it
\* carries the same lead_id, missing or not, whatever else is missing or
\* invalid in the row.
C11_CleanKeepsRows ==
    JustCleaned =>
        /\ Len(CleanRows) = Len(RawRows)
        /\ \A i \in 1..Len(RawRows) : CleanRows[i].lead_id = RawRows[i].lead_id

\* a clean_data that returned normally on a Raw table of several rows, one
\* without a lead_id, one without an e-mail address and one whose e-mail
\* address is not valid
C11_Witness ==
    /\ JustCleaned
    /\ Len(RawRows) >= 2
    /\ \E i \in 1..Len(RawRows) : IsNull(RawRows[i].lead_id)
    /\ \E i \in 1..Len(RawRows) : IsNull(RawRows[i].email)
    /\ \E i \in 1..Len(RawRows) :
          ~IsNull(RawRows[i].email) /\ CleanRows[i].email = InvalidEmail

\* the session's analyzer with the Cleaned table a clean_data of its Raw
\* table leaves
CurrentCleaned ==
    [analyzer EXCEPT !.clean_df = Frame(CleanSteps(analyzer.df.rows).rows)]

\* the outcomes of the method behind a menu choice on the analyzer self
ChoiceOutcomes(choice, self) ==
    CASE choice = "3" -> {calculate_conversion_rate(self)}
      [] choice = "4" ->
           {analyze_by_source(self, sorted) : sorted \in SortedSourceStats(self)}
      [] choice = "5" ->
           {analyze_by_status(self, sorted) : sorted \in SortedStatusCounts(self)}
      [] choice = "6" -> {analyze_trends(self)}
      [] choice = "7" -> {create_visualizations(self)}
      [] choice = "8" -> {export_report(self, "csv")}
      [] choice = "9" -> {export_report(self, "excel")}
      [] OTHER -> {}

CleanedChoices == {"3", "4", "5", "6", "7", "8", "9"}

\* C12: in the interactive session a Cleaned table exists only together
\* with a Raw table and is the one clean_data derives from that Raw table.
\* Every choice 1 replaces the session's analyzer: a load that succeeds
\* leaves the new Raw table and no Cleaned table, a load that fails leaves
\* no analyzer, and then every clean, analyze and export choice is rejected
\* and changes nothing.  An aggregation, the charts or an export that is
\* served answers from the Cleaned table of the Raw table now loaded, never
\* from the one of a file loaded before.
C12_CleanedIsOfCurrentRaw ==
    [][/\ analyzer'.clean_df.some =>
             /\ analyzer'.made /\ analyzer'.df.some
             /\ analyzer'.clean_df.rows = CleanSteps(analyzer'.df.rows).rows
       /\ last'.op = "1" =>
             IF last'.ret.bool
             THEN analyzer'.made /\ analyzer'.df.some /\ ~analyzer'.clean_df.some
             ELSE analyzer' = NoAnalyzer
       /\ (~analyzer.made /\ last'.op \in CleanedChoices \cup {"2"}) =>
             /\ last'.out = IF last'.op = "2" THEN MenuNotLoaded ELSE MenuNotCleaned
             /\ last'.ret = None
             /\ analyzer' = NoAnalyzer
       /\ (last'.op \in CleanedChoices /\ last'.out /= MenuNotCleaned) =>
             /\ analyzer.df.some
             /\ \E o \in ChoiceOutcomes(last'.op, CurrentCleaned) :
                   last'.out = o.out /\ last'.ret = o.ret
      ]_vars

\* a choice 1 whose load succeeded: the session holds a Raw table of a row
\* or more and no Cleaned table
C12_Witness ==
    /\ last.op = "1"
    /\ last.ret = Returned(TRUE)
    /\ analyzer.made /\ analyzer.df.some /\ Len(RawRows) >= 1
    /\ ~analyzer.clean_df.some

=============================================================================
